---- MODULE Spec2Model ----
(***************************************************************************)
(* SlideFlow frontend: the presentation store (PresentationContext), the   *)
(* api service behind it and the UI controls that start the two            *)
(* long-running actions, generate and export.                              *)
(*                                                                         *)
(* JavaScript runs the handlers on one thread.  A handler runs from its    *)
(* start to its first await in one step; the continuation after an await   *)
(* is a later step.  Every store update is a functional update             *)
(* (setPresentation(prev => ...)), so the updates of one step apply in     *)
(* program order to the store value.  The `presentation` a handler reads   *)
(* is the value of the render that created the handler, which for a        *)
(* handler started by a user event is the store value at that moment.      *)
(***************************************************************************)
EXTENDS Integers, Sequences, FiniteSets, TLC

(* ---- bounds of the model ---------------------------------------------- *)

\* number of generate/export invocations that can be suspended at a time
MaxInFlight == 2

\* number of slides the editing calls let the sequence grow to
MaxSlides == 3

\* the object URLs that may be unreleased at once in the download specification
MaxObjectURLs == 2

(* ---- JavaScript values ------------------------------------------------ *)

\* the value of an absent property
Undefined == "<undefined>"
\* the null of `uploadedDocument: File | null`
Null == "<null>"

\* JavaScript truthiness of a string-or-absent value
Truthy(v) == v \notin {Undefined, Null, ""}

\* a || b
OrElse(a, b) == IF Truthy(a) THEN a ELSE b

Digit(d) == SubSeq("0123456789", d + 1, d + 1)

\* String(n) for a non-negative integer n
RECURSIVE String(_)
String(n) == IF n < 10 THEN Digit(n) ELSE String(n \div 10) \o Digit(n % 10)

\* an optional array property: absent, or an array of strings
NoArray == [isArray |-> FALSE, items |-> <<>>]
Array(s) == [isArray |-> TRUE, items |-> s]

(* ---- the store's data ------------------------------------------------- *)

\* interface Slide; an absent optional property reads as Undefined
Slide(id, type, title, content, imageUrl, bullets, quote, author, leftContent, rightContent) ==
    [id |-> id, type |-> type, title |-> title, content |-> content,
     imageUrl |-> imageUrl, bullets |-> bullets, quote |-> quote,
     author |-> author, leftContent |-> leftContent, rightContent |-> rightContent]

SlideType == {"title", "content", "image", "bullets", "quote", "two-column"}

TemplateType == {"corporate", "creative", "academic", "marketing", "minimalist",
                 "techStartup", "businessPitch", "futuristic", "elegant", "healthcare",
                 "finance", "event", "elearning", "travel"}

defaultSlides ==
    << Slide("1", "title", "Your Presentation Title", "A subtitle or additional context",
             Undefined, NoArray, Undefined, Undefined, Undefined, Undefined) >>

initialState ==
    [title |-> "Untitled Presentation",
     description |-> "",
     slides |-> defaultSlides,
     selectedTemplate |-> "corporate",
     isGenerating |-> FALSE,
     generationProgress |-> 0,
     promptText |-> "",
     uploadedDocument |-> Null,
     slideCount |-> 8]

MAX_CHARS == 1000

\* the Generate button of PromptInput needs at least this many characters
MinPromptChars == 10

Formats == {"pptx", "docx", "pdf"}

\* the formats the user is let to pick
FormatChoices == {"pptx", "pdf"}

(* ---- the store's mutations, as functions of the store value --------- *)

setTitle(p, title) == [p EXCEPT !.title = title]

setDescription(p, description) == [p EXCEPT !.description = description]

setSlides(p, slides) == [p EXCEPT !.slides = slides]

addSlide(p, slide) == [p EXCEPT !.slides = Append(p.slides, slide)]

\* { ...slide, ...slideUpdates }: the keys of slideUpdates override
Merge(slide, slideUpdates) ==
    [k \in DOMAIN slide |-> IF k \in DOMAIN slideUpdates THEN slideUpdates[k] ELSE slide[k]]

updateSlide(p, id, slideUpdates) ==
    [p EXCEPT !.slides = [i \in 1..Len(p.slides) |->
        IF p.slides[i].id = id THEN Merge(p.slides[i], slideUpdates) ELSE p.slides[i]]]

removeSlide(p, id) ==
    [p EXCEPT !.slides = SelectSeq(p.slides, LAMBDA slide : slide.id # id)]

\* the index at which Array.prototype.splice starts: a negative start counts
\* from the end, and the result is clamped to 0..length
spliceStart(array, start) ==
    IF start < 0
    THEN (IF Len(array) + start < 0 THEN 0 ELSE Len(array) + start)
    ELSE (IF start > Len(array) THEN Len(array) ELSE start)

\* an array entry that holds undefined
UndefinedSlide ==
    Slide(Undefined, Undefined, Undefined, Undefined, Undefined, NoArray,
          Undefined, Undefined, Undefined, Undefined)

\* const [removed] = result.splice(startIndex, 1): the array that is left
\* and the element taken out, undefined when startIndex is past the end
spliceOut(array, startIndex) ==
    LET k == spliceStart(array, startIndex) IN
    IF k < Len(array)
    THEN [result |-> SubSeq(array, 1, k) \o SubSeq(array, k + 2, Len(array)),
          removed |-> array[k + 1]]
    ELSE [result |-> array, removed |-> UndefinedSlide]

\* result.splice(endIndex, 0, removed)
spliceIn(array, endIndex, removed) ==
    LET k == spliceStart(array, endIndex) IN
    SubSeq(array, 1, k) \o <<removed>> \o SubSeq(array, k + 1, Len(array))

\* variant: the two slides change places
reorderSlides_swap(p, rendered, startIndex, endIndex) ==
    [p EXCEPT !.slides =
        [i \in 1..Len(rendered.slides) |->
            IF i = startIndex + 1 THEN rendered.slides[endIndex + 1]
            ELSE IF i = endIndex + 1 THEN rendered.slides[startIndex + 1]
            ELSE rendered.slides[i]]]

\* reorderSlides builds the new sequence from the slides of `rendered`, the
\* store value of the render that created the function, and writes it to
\* the store value p
reorderSlides(p, rendered, startIndex, endIndex) ==
    LET out == spliceOut(rendered.slides, startIndex) IN
    [p EXCEPT !.slides = spliceIn(out.result, endIndex, out.removed)]

setSelectedTemplate(p, selectedTemplate) == [p EXCEPT !.selectedTemplate = selectedTemplate]

setIsGenerating(p, isGenerating) == [p EXCEPT !.isGenerating = isGenerating]

setGenerationProgress(p, generationProgress) ==
    [p EXCEPT !.generationProgress = generationProgress]

setPromptText(p, promptText) == [p EXCEPT !.promptText = promptText]

setUploadedDocument(p, uploadedDocument) == [p EXCEPT !.uploadedDocument = uploadedDocument]

setSlideCount(p, slideCount) == [p EXCEPT !.slideCount = slideCount]

(* ---- the templates ------------------------------------------------------ *)

\* const availableTemplates: Template[]
availableTemplates ==
    <<
      [id |-> "corporate", name |-> "Corporate",
       description |-> "Professional design for business presentations",
       primaryColor |-> "#0F62FE", secondaryColor |-> "#6F6F6F", accentColor |-> "#4589FF",
       previewImageUrl |-> "/placeholder.svg"],
      [id |-> "creative", name |-> "Creative",
       description |-> "Vibrant design for creative presentations",
       primaryColor |-> "#FF3366", secondaryColor |-> "#9C27B0", accentColor |-> "#FFCC00",
       previewImageUrl |-> "/placeholder.svg"],
      [id |-> "academic", name |-> "Academic",
       description |-> "Structured design for educational content",
       primaryColor |-> "#006064", secondaryColor |-> "#00897B", accentColor |-> "#4DD0E1",
       previewImageUrl |-> "/placeholder.svg"],
      [id |-> "marketing", name |-> "Marketing",
       description |-> "Persuasive design for sales pitches",
       primaryColor |-> "#FF5722", secondaryColor |-> "#FF9800", accentColor |-> "#FFC107",
       previewImageUrl |-> "/placeholder.svg"],
      [id |-> "minimalist", name |-> "Minimalist",
       description |-> "Clean, typography-focused design",
       primaryColor |-> "#212121", secondaryColor |-> "#757575", accentColor |-> "#BDBDBD",
       previewImageUrl |-> "/placeholder.svg"],
      [id |-> "techStartup", name |-> "Tech/Startup",
       description |-> "Modern design for innovative tech companies",
       primaryColor |-> "#00A8E8", secondaryColor |-> "#1E1E1E", accentColor |-> "#2ECC71",
       previewImageUrl |-> "/placeholder.svg"],
      [id |-> "businessPitch", name |-> "Business Pitch Deck",
       description |-> "Professional design for impactful business pitches",
       primaryColor |-> "#001F3F", secondaryColor |-> "#FFFFFF", accentColor |-> "#444444",
       previewImageUrl |-> "/placeholder.svg"],
      [id |-> "futuristic", name |-> "Futuristic",
       description |-> "Forward-thinking design with high-tech aesthetics",
       primaryColor |-> "#00FFFF", secondaryColor |-> "#000000", accentColor |-> "#240046",
       previewImageUrl |-> "/placeholder.svg"],
      [id |-> "elegant", name |-> "Elegant/Luxury",
       description |-> "Sophisticated design for premium presentations",
       primaryColor |-> "#D4AF37", secondaryColor |-> "#000000", accentColor |-> "#4A0D37",
       previewImageUrl |-> "/placeholder.svg"],
      [id |-> "healthcare", name |-> "Healthcare/Medical",
       description |-> "Professional design for medical presentations",
       primaryColor |-> "#007BFF", secondaryColor |-> "#FFFFFF", accentColor |-> "#00897B",
       previewImageUrl |-> "/placeholder.svg"],
      [id |-> "finance", name |-> "Finance & Investment",
       description |-> "Sharp design for financial presentations",
       primaryColor |-> "#004B23", secondaryColor |-> "#FFFFFF", accentColor |-> "#2A3D66",
       previewImageUrl |-> "/placeholder.svg"],
      [id |-> "event", name |-> "Event/Conference",
       description |-> "Eye-catching design for event presentations",
       primaryColor |-> "#E63946", secondaryColor |-> "#000033", accentColor |-> "#007BFF",
       previewImageUrl |-> "/placeholder.svg"],
      [id |-> "elearning", name |-> "E-learning/Educational",
       description |-> "Engaging design for educational content",
       primaryColor |-> "#004D40", secondaryColor |-> "#FFFFFF", accentColor |-> "#FFF8E1",
       previewImageUrl |-> "/placeholder.svg"],
      [id |-> "travel", name |-> "Travel & Adventure",
       description |-> "Vibrant design for travel-related presentations",
       primaryColor |-> "#1E90FF", secondaryColor |-> "#87CEFA", accentColor |-> "#8B4513",
       previewImageUrl |-> "/placeholder.svg"]
    >>

\* one entry of the templateStyling table of getTemplateStyles, made for
\* the catalog entry templateObj; a property the entry does not have reads
\* as Undefined
Styling(fontFamily, titleFontSize, contentFontSize, titleFontWeight, contentFontWeight, textColor, backgroundColor, accentColor, gradient, titleTextTransform, titleFontStyle, templateObj) ==
    [fontFamily |-> fontFamily, titleFontSize |-> titleFontSize,
     contentFontSize |-> contentFontSize, titleFontWeight |-> titleFontWeight,
     contentFontWeight |-> contentFontWeight, textColor |-> textColor,
     backgroundColor |-> backgroundColor, accentColor |-> accentColor,
     gradient |-> gradient, titleTextTransform |-> titleTextTransform,
     titleFontStyle |-> titleFontStyle,
     primaryColor |-> templateObj.primaryColor,
     secondaryColor |-> templateObj.secondaryColor]

\* the own property names of const templateStyling = { corporate: {...}, ... }
templateStylingKeys ==
    {"corporate", "creative", "minimalist", "academic", "marketing", "techStartup", "businessPitch",
     "futuristic", "elegant", "healthcare", "finance", "event", "elearning", "travel"}

\* templateStyling[key] for an own property name
templateStyling(key, templateObj) ==
    CASE
      key = "corporate" -> Styling("Roboto, Arial, sans-serif",
          "44pt", "28pt", "bold", "regular",
          "#002B5B", "#FFFFFF", "#4589FF",
          "none", Undefined, Undefined, templateObj)
      [] key = "creative" -> Styling("Lobster, Montserrat, sans-serif",
          "48pt", "28pt", "bold", "regular",
          "#5A189A", "#F5F5F5", "#FFCC00",
          "linear-gradient(135deg, #FF3366 0%, #9C27B0 100%)", Undefined, Undefined, templateObj)
      [] key = "minimalist" -> Styling("Futura, Helvetica Neue, Arial, sans-serif",
          "42pt", "26pt", "bold", "regular",
          "#444444", "#FFFFFF", "#BDBDBD",
          "none", Undefined, Undefined, templateObj)
      [] key = "academic" -> Styling("Times New Roman, Georgia, serif",
          "44pt", "26pt", "bold", "regular",
          "#1C3D6E", "#FAF3E0", "#4DD0E1",
          "none", Undefined, Undefined, templateObj)
      [] key = "marketing" -> Styling("Impact, Raleway, sans-serif",
          "46pt", "28pt", "bold", "regular",
          "#E63946", "#FFFFFF", "#FFC107",
          "none", Undefined, Undefined, templateObj)
      [] key = "techStartup" -> Styling("Orbitron, Exo, Ubuntu, sans-serif",
          "48pt", "28pt", "semi-bold", "regular",
          "#00A8E8", "#1E1E1E", "#2ECC71",
          "linear-gradient(135deg, #004e92 0%, #8a2be2 100%)", Undefined, Undefined, templateObj)
      [] key = "businessPitch" -> Styling("Baskerville, Proxima Nova, Lato, serif",
          "46pt", "30pt", "bold", "regular",
          "#001F3F", "#FFFFFF", "#444444",
          "none", Undefined, Undefined, templateObj)
      [] key = "futuristic" -> Styling("Audiowide, Orbitron, Rajdhani, sans-serif",
          "50pt", "28pt", "bold", "regular",
          "#00FFFF", "#000000", "#00E5FF",
          "linear-gradient(135deg, #000000 0%, #240046 100%)", "uppercase", Undefined, templateObj)
      [] key = "elegant" -> Styling("Playfair Display, Cormorant, Cinzel, serif",
          "50pt", "28pt", "bold", "regular",
          "#D4AF37", "#000000", "#4A0D37",
          "none", Undefined, "italic", templateObj)
      [] key = "healthcare" -> Styling("Verdana, Nunito, Open Sans, sans-serif",
          "44pt", "26pt", "bold", "regular",
          "#007BFF", "#FFFFFF", "#00897B",
          "none", Undefined, Undefined, templateObj)
      [] key = "finance" -> Styling("Garamond, Franklin Gothic, Source Sans Pro, serif",
          "46pt", "28pt", "bold", "regular",
          "#004B23", "#F4F4F4", "#2A3D66",
          "none", Undefined, Undefined, templateObj)
      [] key = "event" -> Styling("Oswald, Abril Fatface, Raleway, sans-serif",
          "52pt", "30pt", "bold", "regular",
          "#E63946", "#FFFFFF", "#007BFF",
          "linear-gradient(135deg, #000033 0%, #4B0082 100%)", Undefined, Undefined, templateObj)
      [] key = "elearning" -> Styling("\"Comic Sans MS\", Merriweather, Quicksand, sans-serif",
          "42pt", "26pt", "bold", "regular",
          "#004D40", "#FFFFFF", "#333333",
          "none", Undefined, Undefined, templateObj)
      [] key = "travel" -> Styling("Pacifico, Lobster, Raleway, sans-serif",
          "48pt", "28pt", "bold", "regular",
          "#1E90FF", "#87CEFA", "#8B4513",
          "none", Undefined, Undefined, templateObj)

\* availableTemplates.find(t => t.id === templateId) || availableTemplates[0]
findTemplate(templateId) ==
    LET found == {i \in 1..Len(availableTemplates) : availableTemplates[i].id = templateId} IN
    IF found # {}
    THEN availableTemplates[CHOOSE i \in found : \A j \in found : i <= j]
    ELSE availableTemplates[1]

\* the names every object literal inherits from Object.prototype
ObjectPrototypeKeys ==
    {"constructor", "hasOwnProperty", "isPrototypeOf", "propertyIsEnumerable",
     "toLocaleString", "toString", "valueOf", "__proto__"}

\* an inherited member (a function, or Object.prototype): it is truthy, it
\* has none of the styling properties and spreading it gives no property
NoStyling ==
    Styling(Undefined, Undefined, Undefined, Undefined, Undefined, Undefined, Undefined,
            Undefined, Undefined, Undefined, Undefined,
            [primaryColor |-> Undefined, secondaryColor |-> Undefined])

\* templateStyling[templateId] || templateStyling.corporate
templateSpecificStyles(templateId, templateObj) ==
    IF templateId \in templateStylingKeys THEN templateStyling(templateId, templateObj)
    ELSE IF templateId \in ObjectPrototypeKeys THEN NoStyling
    ELSE templateStyling("corporate", templateObj)

\* variant: the colours of the styling table are returned as they are
getTemplateStyles_tableColors(templateId) ==
    LET templateObj == findTemplate(templateId)
        styles == templateSpecificStyles(templateId, templateObj)
    IN  [primary_color |-> styles.primaryColor,
         secondary_color |-> styles.secondaryColor,
         accent_color |-> styles.accentColor,
         background_color |-> styles.backgroundColor,
         text_color |-> styles.textColor] @@ styles

\* getTemplateStyles: { ...templateSpecificStyles, primaryColor: ..., ... }
getTemplateStyles(templateId) ==
    LET templateObj == findTemplate(templateId)
        styles == templateSpecificStyles(templateId, templateObj)
    IN  [primaryColor |-> templateObj.primaryColor,
         primary_color |-> templateObj.primaryColor,
         secondaryColor |-> templateObj.secondaryColor,
         secondary_color |-> templateObj.secondaryColor,
         accentColor |-> templateObj.accentColor,
         accent_color |-> templateObj.accentColor,
         backgroundColor |-> styles.backgroundColor,
         background_color |-> styles.backgroundColor,
         textColor |-> styles.textColor,
         text_color |-> styles.textColor] @@ styles

(* ---- the generation response ----------------------------------------- *)

\* one element of response.slides, in the backend's naming
Element(type, title, content, subtitle, image_url, bullets, quote, author, left_content, right_content) ==
    [type |-> type, title |-> title, content |-> content, subtitle |-> subtitle,
     image_url |-> image_url, bullets |-> bullets, quote |-> quote, author |-> author,
     left_content |-> left_content, right_content |-> right_content]

\* response.data of POST /api/generate: null, or an object whose `slides` is
\* absent, an array, or a value that is no array
Response(isNull, title, slidesKind, items) ==
    [isNull |-> isNull, title |-> title, slidesKind |-> slidesKind, items |-> items]

\* the element of the specification's example: { type: 'title', title: 'Intro' }
ElTitleOnly ==
    Element("title", "Intro", Undefined, Undefined, Undefined, NoArray,
            Undefined, Undefined, Undefined, Undefined)
\* no content, a subtitle
ElSubtitle ==
    Element("title", "Intro", Undefined, "Sub", Undefined, NoArray,
            Undefined, Undefined, Undefined, Undefined)
\* content and subtitle, and every other field set
ElFull ==
    Element("content", "Body", "Text", "Sub", "http://img/1.png", Array(<<"a", "b">>),
            "Q", "X", "L", "R")
\* an empty content, a subtitle, no title
ElEmptyContent ==
    Element("quote", Undefined, "", "Sub", Undefined, NoArray,
            "Q", Undefined, Undefined, Undefined)

\* the responses the backend is let to give
GenerateResponses ==
    { Response(TRUE, Undefined, "absent", <<>>),
      Response(FALSE, "Intro", "absent", <<>>),
      Response(FALSE, Undefined, "notArray", <<>>),
      Response(FALSE, "", "array", <<>>),
      Response(FALSE, Undefined, "array", <<ElTitleOnly>>),
      Response(FALSE, "Intro", "array", <<ElSubtitle, ElFull, ElEmptyContent>>) }

(* ---- generatePresentation, step by step ------------------------------ *)

\* what one step puts on the network: a request, or none
NoRequest ==
    [endpoint |-> "none", via |-> "none", prompt |-> Undefined, document |-> Undefined,
     template_style |-> Undefined, slide_count |-> Undefined, format |-> Undefined,
     body |-> Undefined]

\* !presentation.promptText && !presentation.uploadedDocument
inputMissing(p) == ~Truthy(p.promptText) /\ ~Truthy(p.uploadedDocument)

\* apiService.generatePresentation: the multipart form posted to /api/generate
generateRequest(p) ==
    [endpoint |-> "/api/generate", via |-> "generatePresentation",
     prompt |-> IF Truthy(p.promptText) THEN p.promptText ELSE Undefined,
     document |-> IF Truthy(p.uploadedDocument) THEN p.uploadedDocument ELSE Undefined,
     template_style |-> p.selectedTemplate,
     slide_count |-> IF p.slideCount # 0 THEN String(p.slideCount) ELSE Undefined,
     format |-> Undefined,
     \* the request is a multipart form and has no JSON body
     body |-> Undefined]

\* variant: the validation toasts and does not return
generatePresentation_noReturn(p) ==
    LET p1 == setGenerationProgress(setIsGenerating(p, TRUE), 10) IN
    [state |-> p1, toast |-> IF inputMissing(p) THEN "Input Required" ELSE "none",
     request |-> generateRequest(p), suspended |-> TRUE]

\* generatePresentation up to its first await (or its early return):
\* the store value it leaves, the toast it shows, the request it sends
generatePresentation(p) ==
    LET p1 == setGenerationProgress(setIsGenerating(p, TRUE), 10) IN
    IF inputMissing(p)
    THEN [state |-> setIsGenerating(setIsGenerating(p1, FALSE), FALSE),
          toast |-> "Input Required", request |-> NoRequest, suspended |-> FALSE]
    ELSE [state |-> p1, toast |-> "none", request |-> generateRequest(p),
          suspended |-> TRUE]

\* response && response.slides
hasSlides(response) == ~response.isNull /\ response.slidesKind # "absent"

\* variant: identifiers counted from zero
transformedSlides_zeroBased(response) ==
    [i \in 1..Len(response.items) |->
        LET slide == response.items[i]
            index == i - 1
        IN  Slide(String(index), slide.type, slide.title,
                  OrElse(slide.content, slide.subtitle), slide.image_url, slide.bullets,
                  slide.quote, slide.author, slide.left_content, slide.right_content)]

\* response.slides.map((slide, index) => ({ id: String(index + 1), ... }))
transformedSlides(response) ==
    [i \in 1..Len(response.items) |->
        LET slide == response.items[i]
            index == i - 1
        IN  Slide(String(index + 1), slide.type, slide.title,
                  OrElse(slide.content, slide.subtitle), slide.image_url, slide.bullets,
                  slide.quote, slide.author, slide.left_content, slide.right_content)]

\* variant: the title is set without the test
applyTitle_always(p, response) == setTitle(p, response.title)

\* if (response.title) setTitle(response.title)
applyTitle(p, response) ==
    IF Truthy(response.title) THEN setTitle(p, response.title) ELSE p

\* variant: a successful generation clears the uploaded document
generateResolved_clearsDocument(p, response) ==
    LET p1 == setGenerationProgress(p, 100) IN
    IF hasSlides(response) /\ response.slidesKind = "array"
    THEN [state |-> setIsGenerating(
                       setUploadedDocument(
                          applyTitle(setSlides(p1, transformedSlides(response)), response),
                          Null),
                       FALSE),
          toast |-> "Presentation Generated"]
    ELSE [state |-> setIsGenerating(p1, FALSE), toast |-> "Generation Error"]

\* variant: the title is applied before the response is tested for slides
generateResolved_titleFirst(p, response) ==
    LET p1 == applyTitle(setGenerationProgress(p, 100), response) IN
    IF hasSlides(response) /\ response.slidesKind = "array"
    THEN [state |-> setIsGenerating(setSlides(p1, transformedSlides(response)), FALSE),
          toast |-> "Presentation Generated"]
    ELSE [state |-> setIsGenerating(p1, FALSE), toast |-> "Generation Error"]

\* generatePresentation after the api call resolved with `response`
generateResolved(p, response) ==
    LET p1 == setGenerationProgress(p, 100) IN
    IF hasSlides(response)
    THEN IF response.slidesKind = "array"
         THEN [state |-> setIsGenerating(
                            applyTitle(setSlides(p1, transformedSlides(response)), response),
                            FALSE),
               toast |-> "Presentation Generated"]
         \* response.slides.map is not a function: caught by the catch block
         ELSE [state |-> setIsGenerating(p1, FALSE), toast |-> "Generation Error"]
    ELSE [state |-> setIsGenerating(p1, FALSE), toast |-> "Generation Error"]

\* variant: the catch block without the finally block
generateRejected_noFinally(p) ==
    [state |-> p, toast |-> "Generation Error"]

\* generatePresentation after the api call rejected: catch, then finally
generateRejected(p) ==
    [state |-> setIsGenerating(p, FALSE), toast |-> "Generation Error"]

(* ---- exportPresentation, step by step -------------------------------- *)

\* presentation.slides.length === 0
noSlides(p) == Len(p.slides) = 0

\* obj[key] of an object modelled as a function of its own keys
Get(obj, key) == IF key \in DOMAIN obj THEN obj[key] ELSE Undefined

\* the keys that the slides.map callback of exportPresentation sets
completeSlideKeys(slide) ==
    {"type", "title"}
    \cup (IF Truthy(slide.content) THEN {"content"} ELSE {})
    \cup (IF slide.bullets.isArray /\ Len(slide.bullets.items) > 0 THEN {"bullets"} ELSE {})
    \cup (IF Truthy(slide.quote) THEN {"quote"} ELSE {})
    \cup (IF Truthy(slide.quote) /\ Truthy(slide.author) THEN {"author"} ELSE {})
    \cup (IF Truthy(slide.imageUrl) THEN {"image_url"} ELSE {})
    \cup (IF Truthy(slide.leftContent) THEN {"left_content"} ELSE {})
    \cup (IF Truthy(slide.rightContent) THEN {"right_content"} ELSE {})

\* completeSlide, the entry of contentData.slides made from one slide
completeSlide(slide) ==
    [key \in completeSlideKeys(slide) |->
        CASE key = "type" -> slide.type
          [] key = "title" -> OrElse(slide.title, "")
          [] key = "content" -> slide.content
          [] key = "bullets" -> slide.bullets.items
          [] key = "quote" -> slide.quote
          [] key = "author" -> slide.author
          [] key = "image_url" -> slide.imageUrl
          [] key = "left_content" -> slide.leftContent
          [] key = "right_content" -> slide.rightContent]

\* contentData of exportPresentation
contentData(p) ==
    [title |-> OrElse(p.title, "Untitled Presentation"),
     slides |-> [i \in 1..Len(p.slides) |-> completeSlide(p.slides[i])]]

\* templateDetails of exportPresentation:
\* { ...templateStyles, ...selectedTemplateObj, template_id: ..., ... }
templateDetails(p) ==
    LET templateStyles == getTemplateStyles(p.selectedTemplate)
        selectedTemplateObj == findTemplate(p.selectedTemplate)
    IN  [template_id |-> p.selectedTemplate,
         template_name |-> selectedTemplateObj.name,
         template_style |-> p.selectedTemplate,
         primaryColor |-> selectedTemplateObj.primaryColor,
         primary_color |-> selectedTemplateObj.primaryColor,
         secondaryColor |-> selectedTemplateObj.secondaryColor,
         secondary_color |-> selectedTemplateObj.secondaryColor,
         accentColor |-> selectedTemplateObj.accentColor,
         accent_color |-> selectedTemplateObj.accentColor,
         backgroundColor |-> templateStyles.backgroundColor,
         background_color |-> templateStyles.backgroundColor,
         textColor |-> templateStyles.textColor,
         text_color |-> templateStyles.textColor]
        @@ selectedTemplateObj @@ templateStyles

\* ExportRequest, the argument of apiService.exportPresentation
ExportRequest(p, format) ==
    [contentData |-> contentData(p), templateStyle |-> p.selectedTemplate,
     format |-> format, templateDetails |-> templateDetails(p)]

\* the keys that the slides.map callback of apiService.exportPresentation
\* sets; an array is truthy also when it is empty
slideObjKeys(slide) ==
    {"type", "title"}
    \cup {key \in {"content", "quote", "author", "image_url", "left_content", "right_content"} :
            Truthy(Get(slide, key))}
    \cup (IF "bullets" \in DOMAIN slide THEN {"bullets"} ELSE {})

\* variant: every entry is given a bullets array, empty when there is none
slideObj_bulletsAlways(slide) ==
    [key \in slideObjKeys(slide) \cup {"bullets"} |->
        IF key = "title" THEN OrElse(Get(slide, "title"), "")
        ELSE IF key = "bullets" /\ "bullets" \notin DOMAIN slide THEN <<>>
        ELSE slide[key]]

\* slideObj, the entry of the payload's slides made from one entry of contentData
slideObj(slide) ==
    [key \in slideObjKeys(slide) |->
        IF key = "title" THEN OrElse(Get(slide, "title"), "") ELSE slide[key]]

\* variant: the font family is sent as resolved, without its fallback
simplePayload_fontAsResolved(data) ==
    LET templateStyle == data.templateStyle
        templateDetails_ == data.templateDetails
        backgroundColor == OrElse(Get(templateDetails_, "backgroundColor"), "#FFFFFF")
        textColor == OrElse(Get(templateDetails_, "textColor"), "#000000")
        primaryColor == OrElse(Get(templateDetails_, "primaryColor"), "#0066CC")
        secondaryColor == OrElse(Get(templateDetails_, "secondaryColor"), "#6F6F6F")
        accentColor == OrElse(Get(templateDetails_, "accentColor"), "#4589FF")
        fontFamily == Get(templateDetails_, "fontFamily")
        titleFontSize == OrElse(Get(templateDetails_, "titleFontSize"), "44pt")
        contentFontSize == OrElse(Get(templateDetails_, "contentFontSize"), "28pt")
        titleFontWeight == OrElse(Get(templateDetails_, "titleFontWeight"), "bold")
        contentFontWeight == OrElse(Get(templateDetails_, "contentFontWeight"), "regular")
    IN  [format |-> data.format,
         template_style |-> templateStyle,
         template_id |-> templateStyle,
         template_name |-> templateStyle,
         title |-> OrElse(data.contentData.title, "Untitled Presentation"),
         slides |-> [i \in 1..Len(data.contentData.slides) |->
                        slideObj(data.contentData.slides[i])],
         backgroundColor |-> backgroundColor, textColor |-> textColor,
         primaryColor |-> primaryColor, secondaryColor |-> secondaryColor,
         accentColor |-> accentColor, fontFamily |-> fontFamily,
         titleFontSize |-> titleFontSize, contentFontSize |-> contentFontSize,
         titleFontWeight |-> titleFontWeight, contentFontWeight |-> contentFontWeight,
         background_color |-> backgroundColor, text_color |-> textColor,
         primary_color |-> primaryColor, secondary_color |-> secondaryColor,
         accent_color |-> accentColor, font_family |-> fontFamily,
         title_font_size |-> titleFontSize, content_font_size |-> contentFontSize,
         title_font_weight |-> titleFontWeight, content_font_weight |-> contentFontWeight,
         template_details |->
            [background_color |-> backgroundColor, text_color |-> textColor,
             primary_color |-> primaryColor, secondary_color |-> secondaryColor,
             accent_color |-> accentColor, font_family |-> fontFamily,
             title_font_size |-> titleFontSize, content_font_size |-> contentFontSize]
            @@ templateDetails_
            @@ [template_id |-> templateStyle, template_name |-> templateStyle]]

\* variant: the snake_case colours are sent without their fallback
simplePayload_rawSnakeCase(data) ==
    LET templateStyle == data.templateStyle
        templateDetails_ == data.templateDetails
        backgroundColor == OrElse(Get(templateDetails_, "backgroundColor"), "#FFFFFF")
        textColor == OrElse(Get(templateDetails_, "textColor"), "#000000")
        primaryColor == OrElse(Get(templateDetails_, "primaryColor"), "#0066CC")
        secondaryColor == OrElse(Get(templateDetails_, "secondaryColor"), "#6F6F6F")
        accentColor == OrElse(Get(templateDetails_, "accentColor"), "#4589FF")
        fontFamily == OrElse(Get(templateDetails_, "fontFamily"), "Arial, sans-serif")
        titleFontSize == OrElse(Get(templateDetails_, "titleFontSize"), "44pt")
        contentFontSize == OrElse(Get(templateDetails_, "contentFontSize"), "28pt")
        titleFontWeight == OrElse(Get(templateDetails_, "titleFontWeight"), "bold")
        contentFontWeight == OrElse(Get(templateDetails_, "contentFontWeight"), "regular")
    IN  [format |-> data.format,
         template_style |-> templateStyle,
         template_id |-> templateStyle,
         template_name |-> templateStyle,
         title |-> OrElse(data.contentData.title, "Untitled Presentation"),
         slides |-> [i \in 1..Len(data.contentData.slides) |->
                        slideObj(data.contentData.slides[i])],
         backgroundColor |-> backgroundColor, textColor |-> textColor,
         primaryColor |-> primaryColor, secondaryColor |-> secondaryColor,
         accentColor |-> accentColor, fontFamily |-> fontFamily,
         titleFontSize |-> titleFontSize, contentFontSize |-> contentFontSize,
         titleFontWeight |-> titleFontWeight, contentFontWeight |-> contentFontWeight,
         background_color |-> Get(templateDetails_, "backgroundColor"),
         text_color |-> Get(templateDetails_, "textColor"),
         primary_color |-> primaryColor, secondary_color |-> secondaryColor,
         accent_color |-> accentColor, font_family |-> fontFamily,
         title_font_size |-> titleFontSize, content_font_size |-> contentFontSize,
         title_font_weight |-> titleFontWeight, content_font_weight |-> contentFontWeight,
         template_details |->
            [background_color |-> backgroundColor, text_color |-> textColor,
             primary_color |-> primaryColor, secondary_color |-> secondaryColor,
             accent_color |-> accentColor, font_family |-> fontFamily,
             title_font_size |-> titleFontSize, content_font_size |-> contentFontSize]
            @@ templateDetails_
            @@ [template_id |-> templateStyle, template_name |-> templateStyle]]

\* simplePayload of apiService.exportPresentation, the object whose JSON is
\* the body of the request
simplePayload(data) ==
    LET templateStyle == data.templateStyle
        templateDetails_ == data.templateDetails
        backgroundColor == OrElse(Get(templateDetails_, "backgroundColor"), "#FFFFFF")
        textColor == OrElse(Get(templateDetails_, "textColor"), "#000000")
        primaryColor == OrElse(Get(templateDetails_, "primaryColor"), "#0066CC")
        secondaryColor == OrElse(Get(templateDetails_, "secondaryColor"), "#6F6F6F")
        accentColor == OrElse(Get(templateDetails_, "accentColor"), "#4589FF")
        fontFamily == OrElse(Get(templateDetails_, "fontFamily"), "Arial, sans-serif")
        titleFontSize == OrElse(Get(templateDetails_, "titleFontSize"), "44pt")
        contentFontSize == OrElse(Get(templateDetails_, "contentFontSize"), "28pt")
        titleFontWeight == OrElse(Get(templateDetails_, "titleFontWeight"), "bold")
        contentFontWeight == OrElse(Get(templateDetails_, "contentFontWeight"), "regular")
    IN  [format |-> data.format,
         template_style |-> templateStyle,
         template_id |-> templateStyle,
         template_name |-> templateStyle,
         title |-> OrElse(data.contentData.title, "Untitled Presentation"),
         slides |-> [i \in 1..Len(data.contentData.slides) |->
                        slideObj(data.contentData.slides[i])],
         backgroundColor |-> backgroundColor, textColor |-> textColor,
         primaryColor |-> primaryColor, secondaryColor |-> secondaryColor,
         accentColor |-> accentColor, fontFamily |-> fontFamily,
         titleFontSize |-> titleFontSize, contentFontSize |-> contentFontSize,
         titleFontWeight |-> titleFontWeight, contentFontWeight |-> contentFontWeight,
         background_color |-> backgroundColor, text_color |-> textColor,
         primary_color |-> primaryColor, secondary_color |-> secondaryColor,
         accent_color |-> accentColor, font_family |-> fontFamily,
         title_font_size |-> titleFontSize, content_font_size |-> contentFontSize,
         title_font_weight |-> titleFontWeight, content_font_weight |-> contentFontWeight,
         template_details |->
            [background_color |-> backgroundColor, text_color |-> textColor,
             primary_color |-> primaryColor, secondary_color |-> secondaryColor,
             accent_color |-> accentColor, font_family |-> fontFamily,
             title_font_size |-> titleFontSize, content_font_size |-> contentFontSize]
            @@ templateDetails_
            @@ [template_id |-> templateStyle, template_name |-> templateStyle]]

\* variant: the prompt, when there is one, is sent as the title
exportPayload_promptAsTitle(p, format) ==
    [simplePayload(ExportRequest(p, format)) EXCEPT !.title = OrElse(p.promptText, @)]

\* the body of the request that one exportPresentation(format) sends
exportPayload(p, format) == simplePayload(ExportRequest(p, format))

\* apiService.exportPresentation: the JSON posted to /api/export
exportRequest(p, format) ==
    [endpoint |-> "/api/export", via |-> "exportPresentation",
     prompt |-> Undefined, document |-> Undefined,
     template_style |-> p.selectedTemplate, slide_count |-> Undefined,
     format |-> format,
     body |-> exportPayload(p, format)]

\* minimalPayload of apiService.debugExportPresentation(format), whose
\* templateId defaults to 'corporate': a test presentation
minimalPayload(format) ==
    [format |-> format,
     template_style |-> "corporate",
     template_id |-> "corporate",
     template_name |-> "Corporate",
     title |-> "Test Corporate Presentation",
     slides |->
        << [type |-> "title", title |-> "Test Title Slide",
            content |-> "Subtitle text for a test presentation"],
           [type |-> "content", title |-> "Content Slide",
            content |-> "This is a sample content slide with regular paragraph text. It demonstrates how text content appears in a standard slide."],
           [type |-> "bullets", title |-> "Bullet Points Slide",
            bullets |-> << "First important bullet point",
                           "Second bullet with key information",
                           "Third bullet showing data",
                           "Final summary point with conclusion" >>],
           [type |-> "quote", title |-> "Quote Example",
            quote |-> "The best way to predict the future is to create it.",
            author |-> "Peter Drucker"],
           [type |-> "two-column", title |-> "Two Column Layout",
            left_content |-> "This content appears in the left column of the slide.",
            right_content |-> "While this text will appear in the right column of the slide."] >>,
     backgroundColor |-> "#FFFFFF", textColor |-> "#002B5B",
     primaryColor |-> "#0F62FE", secondaryColor |-> "#6F6F6F",
     accentColor |-> "#4589FF", fontFamily |-> "Roboto, Arial, sans-serif",
     titleFontSize |-> "44pt", contentFontSize |-> "28pt",
     titleFontWeight |-> "bold", contentFontWeight |-> "regular",
     background_color |-> "#FFFFFF", text_color |-> "#002B5B",
     primary_color |-> "#0F62FE", secondary_color |-> "#6F6F6F",
     accent_color |-> "#4589FF", font_family |-> "Roboto, Arial, sans-serif",
     title_font_size |-> "44pt", content_font_size |-> "28pt",
     title_font_weight |-> "bold", content_font_weight |-> "regular",
     template_details |->
        [template_id |-> "corporate", template_name |-> "Corporate",
         background_color |-> "#FFFFFF", text_color |-> "#002B5B",
         primary_color |-> "#0F62FE", secondary_color |-> "#6F6F6F",
         accent_color |-> "#4589FF", font_family |-> "Roboto, Arial, sans-serif",
         title_font_size |-> "44pt", content_font_size |-> "28pt",
         title_font_weight |-> "bold", content_font_weight |-> "regular"]]

\* apiService.debugExportPresentation(format): templateId defaults to 'corporate'
debugExportRequest(format) ==
    [endpoint |-> "/api/export", via |-> "debugExportPresentation",
     prompt |-> Undefined, document |-> Undefined,
     template_style |-> "corporate", slide_count |-> Undefined,
     format |-> format,
     body |-> minimalPayload(format)]

\* variant: the validation toasts and does not return
exportPresentation_noReturn(p, format) ==
    LET p1 == setIsGenerating(p, TRUE) IN
    [state |-> p1, toast |-> IF noSlides(p) THEN "No Content" ELSE "none",
     request |-> exportRequest(p, format), suspended |-> TRUE, rejected |-> FALSE]

\* slides.map(slide => ({ type: slide.type, ... })) reads a property of
\* undefined: a TypeError
mapThrows(slides) == \E i \in 1..Len(slides) : slides[i] = UndefinedSlide

\* exportPresentation up to its first await (or its early return, or the
\* error thrown while contentData is built, which no catch block handles:
\* the finally block runs and the promise is rejected)
exportPresentation(p, format) ==
    LET p1 == setIsGenerating(p, TRUE) IN
    IF noSlides(p)
    THEN [state |-> setIsGenerating(setIsGenerating(p1, FALSE), FALSE),
          toast |-> "No Content", request |-> NoRequest, suspended |-> FALSE,
          rejected |-> FALSE]
    ELSE IF mapThrows(p.slides)
    THEN [state |-> setIsGenerating(p1, FALSE),
          toast |-> "none", request |-> NoRequest, suspended |-> FALSE,
          rejected |-> TRUE]
    ELSE [state |-> p1, toast |-> "none", request |-> exportRequest(p, format),
          suspended |-> TRUE, rejected |-> FALSE]

\* how a fetch of /api/export ends: a 2xx response, another status, or a
\* rejected promise (network unreachable, body unreadable)
FetchOutcomes == {"ok", "status", "rejected"}

\* a 2xx response that names the file in its content-disposition header
NamedOutcomes == {"okNamed"}

\* response.ok
responseOk(outcome) == outcome \in {"ok", "okNamed"}

\* response.headers.get('content-disposition') of a 2xx response
contentDisposition(outcome) ==
    IF outcome = "okNamed" THEN "attachment; filename=\"deck.pptx\"" ELSE Null

\* response.status and the text of the body of the response that is not ok
failureStatus == 500
failureText == "renderer crashed"

\* the message of the error that reaches the catch block of exportPresentation:
\* `Export failed with status ${response.status}: ${errorText}`, or the
\* message of the error that fetch rejected with
errorMessage(outcome) ==
    IF outcome = "status"
    THEN "Export failed with status " \o String(failureStatus) \o ": " \o failureText
    ELSE "Failed to fetch"

\* format.toUpperCase()
toUpperCase(format) ==
    CASE format = "pptx" -> "PPTX" [] format = "docx" -> "DOCX" [] format = "pdf" -> "PDF"

\* the file name of the download that apiService.exportPresentation starts
exportFilename(format) == "presentation." \o format

\* the file name of the download that debugExportPresentation starts
debugFilename(format) == "debug_presentation." \o format

\* variant: the body of every response is taken for the file
exportSettled_anyStatusIsFile(p, format, outcome) ==
    IF outcome # "rejected"
    THEN [state |-> setIsGenerating(p, FALSE), toast |-> "Export Successful",
          description |-> "Your presentation has been exported as "
                          \o toUpperCase(format) \o ".",
          saved |-> exportFilename(format), request |-> NoRequest, suspended |-> FALSE]
    ELSE [state |-> p, toast |-> "Export Failed",
          description |-> OrElse(errorMessage(outcome),
                                 "There was an error exporting your presentation."),
          saved |-> "none",
          request |-> debugExportRequest(format), suspended |-> TRUE]

\* exportPresentation after apiService.exportPresentation settled
exportSettled(p, format, outcome) ==
    IF responseOk(outcome)
    THEN [state |-> setIsGenerating(p, FALSE), toast |-> "Export Successful",
          description |-> "Your presentation has been exported as "
                          \o toUpperCase(format) \o ".",
          saved |-> exportFilename(format), request |-> NoRequest, suspended |-> FALSE]
    \* catch: toast, then await apiService.debugExportPresentation(format)
    ELSE [state |-> p, toast |-> "Export Failed",
          description |-> OrElse(errorMessage(outcome),
                                 "There was an error exporting your presentation."),
          saved |-> "none",
          request |-> debugExportRequest(format), suspended |-> TRUE]

\* exportPresentation after debugExportPresentation settled (it never rejects)
debugExportSettled(p, format, outcome) ==
    IF responseOk(outcome)
    THEN [state |-> setIsGenerating(p, FALSE), toast |-> "Direct Export Succeeded",
          saved |-> debugFilename(format)]
    ELSE [state |-> setIsGenerating(p, FALSE), toast |-> "none", saved |-> "none"]

(* ---- DocumentUpload --------------------------------------------------- *)

File(name, type, size) == [name |-> name, type |-> type, size |-> size]

validTypes ==
    {"application/pdf",
     "application/vnd.openxmlformats-officedocument.wordprocessingml.document",
     "text/plain"}

maxSize == 10 * 1024 * 1024

\* validateFile: "ok", or the title of the toast that rejects the file
validateFile(file) ==
    IF file.type \notin validTypes THEN "Invalid file type"
    ELSE IF file.size > maxSize THEN "File too large"
    ELSE "ok"

\* the files the user is let to pick
Files ==
    { File("report.pdf", "application/pdf", 2048),
      File("photo.png", "image/png", 2048),
      File("huge.pdf", "application/pdf", maxSize + 1) }

\* the file the user is let to drop onto the drop area
DroppedFiles == { File("report.pdf", "application/pdf", 2048) }

(* ---- state ------------------------------------------------------------ *)

VARIABLES
    presentation,   \* the store value of PresentationProvider
    text,           \* PromptInput's local copy of the prompt
    isExporting,    \* ExportButton's local flag
    exportFormat,   \* ExportButton's local format, Null when not exporting
    inv,            \* the suspended generate/export invocations, by slot
    last,           \* the handler step taken last and what it did
    objectURLs      \* the object URLs created and not revoked

vars == <<presentation, text, isExporting, exportFormat, inv, last, objectURLs>>

Slots == 1..MaxInFlight

\* a free slot
IdleInv ==
    [pc |-> "idle", origin |-> "none", format |-> "none",
     pre |-> initialState, preValid |-> FALSE, sent |-> 0]

\* a suspended invocation: what it awaits (pc), the control that started it,
\* its format argument, the store value before the call (while no other
\* handler has changed the store since), and the requests it has sent
Invocation(pc, origin, format, pre) ==
    [pc |-> pc, origin |-> origin, format |-> format,
     pre |-> pre, preValid |-> TRUE, sent |-> 1]

NullResponse == Response(TRUE, Undefined, "absent", <<>>)

\* the record of one handler step; `args` are the arguments of a call made
\* through the context and `description` the description of the toast,
\* where a step records them; `rejected` tells that the promise of the
\* async function that took the step was rejected
Step(op, origin, toast, request, saved, done, settled, response) ==
    [op |-> op, origin |-> origin, toast |-> toast, request |-> request,
     saved |-> saved, done |-> done, settled |-> settled, response |-> response,
     args |-> <<>>, description |-> "none", rejected |-> FALSE]

\* a step that only writes the store
Plain(op, toast) == Step(op, "none", toast, NoRequest, "none", FALSE, "none", NullResponse)

InFlight == {i \in Slots : inv[i].pc # "idle"}

FreeSlot == CHOOSE i \in Slots : inv[i].pc = "idle" /\ \A j \in Slots : j < i => inv[j].pc # "idle"

\* the slots after a step of `self` (0: no invocation) that leaves store p2:
\* the other invocations no longer hold the store value before their call
Others(self, p2) ==
    [j \in Slots |->
        IF j # self /\ inv[j].pc # "idle" /\ p2 # presentation
        THEN [inv[j] EXCEPT !.pre = initialState, !.preValid = FALSE]
        ELSE inv[j]]

Init ==
    /\ presentation = initialState
    /\ text = ""
    /\ isExporting = FALSE
    /\ exportFormat = Null
    /\ inv = [i \in Slots |-> IdleInv]
    /\ last = Plain("init", "none")
    /\ objectURLs = {}

(* ---- the UI controls --------------------------------------------------- *)

\* the prompts the user is let to type
Prompts == {"", "Slides about TLA+"}

\* PromptInput.handleTextChange; the textarea is disabled while generating
handleTextChange(newText) ==
    /\ ~presentation.isGenerating
    /\ newText # text
    /\ Len(newText) <= MAX_CHARS
    /\ text' = newText
    /\ presentation' = setPromptText(presentation, newText)
    /\ inv' = Others(0, presentation')
    /\ last' = Plain("handleTextChange", "none")
    /\ UNCHANGED <<isExporting, exportFormat, objectURLs>>

\* DocumentUpload.handleChange: the file input, disabled while generating
handleChange(file) ==
    /\ ~Truthy(presentation.uploadedDocument)
    /\ ~presentation.isGenerating
    /\ presentation' = IF validateFile(file) = "ok"
                       THEN setUploadedDocument(presentation, file.name)
                       ELSE presentation
    /\ inv' = Others(0, presentation')
    /\ last' = Plain("handleChange",
                     IF validateFile(file) = "ok" THEN "File uploaded" ELSE validateFile(file))
    /\ UNCHANGED <<text, isExporting, exportFormat, objectURLs>>

\* DocumentUpload.handleDrop: the drop area, never disabled
handleDrop(file) ==
    /\ ~Truthy(presentation.uploadedDocument)
    /\ presentation' = IF validateFile(file) = "ok"
                       THEN setUploadedDocument(presentation, file.name)
                       ELSE presentation
    /\ inv' = Others(0, presentation')
    /\ last' = Plain("handleDrop",
                     IF validateFile(file) = "ok" THEN "File uploaded" ELSE validateFile(file))
    /\ UNCHANGED <<text, isExporting, exportFormat, objectURLs>>

\* DocumentUpload.removeFile
removeFile ==
    /\ Truthy(presentation.uploadedDocument)
    /\ presentation' = setUploadedDocument(presentation, Null)
    /\ inv' = Others(0, presentation')
    /\ last' = Plain("removeFile", "none")
    /\ UNCHANGED <<text, isExporting, exportFormat, objectURLs>>

\* an invocation of the store's generatePresentation by `origin`
invokeGenerate(origin) ==
    LET r == generatePresentation(presentation) IN
    /\ r.suspended => InFlight # Slots
    /\ presentation' = r.state
    /\ inv' = IF r.suspended
              THEN [Others(0, r.state) EXCEPT
                      ![FreeSlot] = Invocation("generate", "none", "none", presentation)]
              ELSE Others(0, r.state)
    /\ last' = Step("generatePresentation", origin, r.toast, r.request, "none",
                    ~r.suspended, "none", NullResponse)
    /\ UNCHANGED <<text, isExporting, exportFormat, objectURLs>>

\* the Generate button of PromptInput is rendered and enabled
generateEnabled ==
    /\ ~presentation.isGenerating
    /\ ~(Len(text) < MinPromptChars \/ presentation.isGenerating)

\* PromptInput.handleGenerate
handleGenerate ==
    /\ generateEnabled
    /\ invokeGenerate("PromptInput")

\* generatePresentation called through the context by any other consumer
call_generatePresentation ==
    invokeGenerate("context")

\* ExportButton: slides.length <= 1 || isGenerating || isExporting
isDisabled ==
    Len(presentation.slides) <= 1 \/ presentation.isGenerating \/ isExporting

\* an invocation of the store's exportPresentation by `origin`
invokeExport(origin, format) ==
    \E r \in {exportPresentation(presentation, format)} :
    /\ r.suspended => InFlight # Slots
    /\ presentation' = r.state
    /\ inv' = IF r.suspended
              THEN [Others(0, r.state) EXCEPT
                      ![FreeSlot] = [Invocation("export", origin, format, initialState)
                                     EXCEPT !.preValid = FALSE]]
              ELSE Others(0, r.state)
    /\ last' = [Step("exportPresentation", origin, r.toast, r.request, "none",
                     ~r.suspended, "none", NullResponse)
                EXCEPT !.rejected = r.rejected]
    /\ IF origin = "ExportButton"
       THEN /\ isExporting' = r.suspended
            /\ exportFormat' = IF r.suspended THEN format ELSE Null
       ELSE UNCHANGED <<isExporting, exportFormat>>
    /\ UNCHANGED <<text, objectURLs>>

\* ExportButton.handleExport, from the menu behind the Export button
ExportButton_handleExport(format) ==
    /\ ~isDisabled
    /\ invokeExport("ExportButton", format)

\* Header.handleExport, from the PPTX / DOCX / PDF tabs
Header_handleExport(format) ==
    invokeExport("Header", format)

(* ---- the network answers ---------------------------------------------- *)

\* an object URL (and the link element that points to it): an identifier
\* that no other unreleased URL has, the name of the download it backs, and
\* whether a timer that revokes it is scheduled
ObjectURL(id, filename, revoke) == [id |-> id, filename |-> filename, revoke |-> revoke]

\* window.URL.createObjectURL(blob): a URL that is not in use
createObjectURL(urls) ==
    CHOOSE id \in 1..(Cardinality(urls) + 1) :
        /\ \A url \in urls : url.id # id
        /\ \A smaller \in 1..(id - 1) : \E url \in urls : url.id = smaller

\* variant: the link is clicked and no timer is set
download_noTimeout(urls, saved) ==
    IF saved = "none"
    THEN urls
    ELSE urls \cup {ObjectURL(createObjectURL(urls), saved, FALSE)}

\* the end of a download routine of apiService that saved `saved`:
\* createObjectURL(blob), the click on the link, setTimeout(..., 100)
download(urls, saved) ==
    IF saved = "none"
    THEN urls
    ELSE urls \cup {ObjectURL(createObjectURL(urls), saved, TRUE)}

\* slot i is released; the ExportButton that started it resets its flags
\* (the finally block of ExportButton.handleExport)
Release(i) ==
    IF inv[i].origin = "ExportButton"
    THEN isExporting' = FALSE /\ exportFormat' = Null
    ELSE UNCHANGED <<isExporting, exportFormat>>

\* POST /api/generate resolved with `response`: generatePresentation resumes
generateResolves(i, response) ==
    LET r == generateResolved(presentation, response) IN
    /\ inv[i].pc = "generate"
    /\ presentation' = r.state
    /\ inv' = [Others(i, r.state) EXCEPT ![i] = IdleInv]
    /\ last' = Step("generatePresentation.settled", "none", r.toast, NoRequest,
                    "none", TRUE, "resolved", response)
    /\ UNCHANGED <<text, isExporting, exportFormat, objectURLs>>

\* POST /api/generate rejected (axios rejects on a network error and on a
\* status outside 2xx): generatePresentation resumes in its catch block
generateRejects(i) ==
    LET r == generateRejected(presentation) IN
    /\ inv[i].pc = "generate"
    /\ presentation' = r.state
    /\ inv' = [Others(i, r.state) EXCEPT ![i] = IdleInv]
    /\ last' = Step("generatePresentation.settled", "none", r.toast, NoRequest,
                    "none", TRUE, "rejected", NullResponse)
    /\ UNCHANGED <<text, isExporting, exportFormat, objectURLs>>

\* the fetch of apiService.exportPresentation settled: exportPresentation resumes
exportSettles(i, outcome) ==
    /\ inv[i].pc = "export"
    /\ \E r \in {exportSettled(presentation, inv[i].format, outcome)} :
           /\ presentation' = r.state
           /\ inv' = [Others(i, r.state) EXCEPT
                        ![i] = IF r.suspended
                               THEN [inv[i] EXCEPT !.pc = "debugExport", !.sent = @ + 1]
                               ELSE IdleInv]
           /\ last' = [Step("exportPresentation.settled", inv[i].origin, r.toast, r.request,
                            r.saved, ~r.suspended, outcome, NullResponse)
                       EXCEPT !.description = r.description]
           /\ IF r.suspended THEN UNCHANGED <<isExporting, exportFormat>> ELSE Release(i)
           /\ objectURLs' = download(objectURLs, r.saved)
           /\ UNCHANGED text

\* the fetch of debugExportPresentation settled: exportPresentation resumes
debugExportSettles(i, outcome) ==
    LET r == debugExportSettled(presentation, inv[i].format, outcome) IN
    /\ inv[i].pc = "debugExport"
    /\ presentation' = r.state
    /\ inv' = [Others(i, r.state) EXCEPT ![i] = IdleInv]
    /\ last' = Step("debugExportPresentation.settled", inv[i].origin, r.toast, NoRequest,
                    r.saved, TRUE, outcome, NullResponse)
    /\ Release(i)
    /\ objectURLs' = download(objectURLs, r.saved)
    /\ UNCHANGED text

\* the network call that slot i awaits settles
Settle(i) ==
    \/ \E response \in GenerateResponses : generateResolves(i, response)
    \/ generateRejects(i)
    \/ \E outcome \in FetchOutcomes : exportSettles(i, outcome)
    \/ \E outcome \in FetchOutcomes : debugExportSettles(i, outcome)

\* the callback of setTimeout(..., 100): revokeObjectURL(url), removeChild(link)
revokeTimeout(url) ==
    /\ url \in objectURLs
    /\ url.revoke
    /\ objectURLs' = objectURLs \ {url}
    /\ last' = Plain("setTimeout", "none")
    /\ UNCHANGED <<presentation, text, isExporting, exportFormat, inv>>

\* a callback of setTimeout is scheduled
timerScheduled == \E url \in objectURLs : url.revoke

\* the scheduled callbacks
Timers == \E url \in objectURLs : revokeTimeout(url)

(* ---- specifications ---------------------------------------------------- *)

\* the steps of the UI controls
UIEvents ==
    \/ \E newText \in Prompts : handleTextChange(newText)
    \/ \E file \in Files : handleChange(file)
    \/ \E file \in DroppedFiles : handleDrop(file)
    \/ removeFile
    \/ handleGenerate
    \/ \E format \in FormatChoices : ExportButton_handleExport(format)
    \/ \E format \in FormatChoices : Header_handleExport(format)
    \/ \E i \in Slots : Settle(i)

\* the event loop of the store's specifications: revokeTimeout writes
\* objectURLs alone and no handler reads objectURLs, so the callback commutes
\* with every handler, and a scheduled callback is let to run first
NextUI ==
    IF timerScheduled THEN Timers ELSE UIEvents

\* the UI, and any other consumer of the context calling generatePresentation
Next ==
    IF timerScheduled THEN Timers ELSE UIEvents \/ call_generatePresentation

Spec == Init /\ [][Next]_vars

\* the application as the user drives it
SpecUI == Init /\ [][NextUI]_vars

\* the responses of the liveness specification
LiveResponses == {r \in GenerateResponses : r.slidesKind # "array" \/ Len(r.items) # 1}

\* the network call that slot i awaits settles, in the liveness specification
SettleLive(i) ==
    \/ \E response \in LiveResponses : generateResolves(i, response)
    \/ generateRejects(i)
    \/ \E outcome \in FetchOutcomes : exportSettles(i, outcome)
    \/ \E outcome \in FetchOutcomes : debugExportSettles(i, outcome)

\* the long-running actions alone, with one format: the control flow of
\* generate and export reads the prompt, the document and the slides only
LiveEvents ==
    \/ \E newText \in Prompts : handleTextChange(newText)
    \/ handleGenerate
    \/ call_generatePresentation
    \/ ExportButton_handleExport("pptx")
    \/ Header_handleExport("pptx")
    \/ \E i \in Slots : SettleLive(i)

NextLive ==
    IF timerScheduled THEN Timers ELSE LiveEvents

\* every issued network call eventually resolves or rejects, and every
\* scheduled callback eventually runs
Fairness == WF_vars(Timers) /\ \A i \in Slots : WF_vars(SettleLive(i))

FairSpec == Init /\ [][NextLive]_vars /\ Fairness

(* ---- the slide editing calls of the context ------------------------- *)

SlideBody ==
    Slide("2", "content", "Body", "Text", Undefined, NoArray,
          Undefined, Undefined, Undefined, Undefined)
SlideQuote ==
    Slide("3", "quote", Undefined, Undefined, Undefined, NoArray,
          "Q", "X", Undefined, Undefined)
\* a slide that carries the identifier of the default slide
SlidePoints ==
    Slide("1", "bullets", "Points", Undefined, Undefined, Array(<<"a", "b">>),
          Undefined, Undefined, Undefined, Undefined)

\* the slides a consumer is let to add
NewSlides == {SlideBody, SlidePoints}

\* the updates a consumer is let to make
SlideUpdates == {[title |-> "Edited"]}

\* the sequences a consumer is let to set
Decks == {<<>>, <<SlideQuote, SlideBody>>}

\* a step of a call made through the context with arguments `args`
Called(op, args) == [Plain(op, "none") EXCEPT !.args = args]

\* a consumer's handler that writes p2 to the store
callStore(op, args, p2) ==
    /\ presentation' = p2
    /\ inv' = Others(0, p2)
    /\ last' = Called(op, args)
    /\ UNCHANGED <<text, isExporting, exportFormat, objectURLs>>

call_addSlide(slide) ==
    /\ Len(presentation.slides) < MaxSlides
    /\ callStore("addSlide", <<slide>>, addSlide(presentation, slide))

call_updateSlide(id, slideUpdates) ==
    callStore("updateSlide", <<id, slideUpdates>>, updateSlide(presentation, id, slideUpdates))

call_removeSlide(id) ==
    callStore("removeSlide", <<id>>, removeSlide(presentation, id))

\* the handler was created by the render of the current store value
call_reorderSlides(startIndex, endIndex) ==
    callStore("reorderSlides", <<startIndex, endIndex>>,
              reorderSlides(presentation, presentation, startIndex, endIndex))

call_setSlides(slides) ==
    callStore("setSlides", <<slides>>, setSlides(presentation, slides))

\* the responses that replace the slides
EditResponses == {r \in GenerateResponses : r.slidesKind = "array" /\ Len(r.items) = 1}

\* the identifiers of the slides in the store
SlideIds == {presentation.slides[i].id : i \in 1..Len(presentation.slides)}

\* the store as a consumer edits it, with generation through PromptInput
NextEdit ==
    \/ \E slide \in NewSlides : call_addSlide(slide)
    \/ \E id \in SlideIds, slideUpdates \in SlideUpdates : call_updateSlide(id, slideUpdates)
    \/ \E id \in SlideIds : call_removeSlide(id)
    \/ \E startIndex, endIndex \in 0..(Len(presentation.slides) - 1) :
          call_reorderSlides(startIndex, endIndex)
    \/ \E slides \in Decks : call_setSlides(slides)
    \/ \E newText \in Prompts \ {""} : handleTextChange(newText)
    \/ handleGenerate
    \/ \E i \in Slots, response \in EditResponses : generateResolves(i, response)

SpecEdit == Init /\ [][NextEdit]_vars

(* ---- templates and export, as the user drives them ------------------ *)

\* the identifiers of the catalog
TemplateIds == {availableTemplates[i].id : i \in 1..Len(availableTemplates)}

\* identifiers outside the catalog that a consumer is let to select
OtherTemplateIds == {"classic", "constructor"}

\* TemplateSelector: the click on the card of one template of the catalog
TemplateSelector_onClick(id) ==
    /\ id # presentation.selectedTemplate
    /\ callStore("setSelectedTemplate", <<id>>, setSelectedTemplate(presentation, id))

\* setSelectedTemplate called through the context by any other consumer
call_setSelectedTemplate(selectedTemplate) ==
    /\ selectedTemplate # presentation.selectedTemplate
    /\ callStore("setSelectedTemplate", <<selectedTemplate>>,
                 setSelectedTemplate(presentation, selectedTemplate))

\* template selection, a change of the deck, and export from the Export button
StyleEvents ==
    \/ \E id \in TemplateIds : TemplateSelector_onClick(id)
    \/ \E id \in OtherTemplateIds : call_setSelectedTemplate(id)
    \/ \E slides \in Decks : call_setSlides(slides)
    \/ \E format \in FormatChoices : ExportButton_handleExport(format)
    \/ \E i \in Slots, outcome \in FetchOutcomes \cup NamedOutcomes : exportSettles(i, outcome)
    \/ \E i \in Slots, outcome \in FetchOutcomes : debugExportSettles(i, outcome)

NextStyle ==
    IF timerScheduled THEN Timers ELSE StyleEvents

SpecStyle == Init /\ [][NextStyle]_vars

(* ---- reordering, with indices of any value -------------------------- *)

\* the indices a consumer is let to pass to reorderSlides
ReorderIndices == -1..MaxSlides

\* a consumer's handler that calls addSlide(slide) and then
\* reorderSlides(startIndex, endIndex): both calls are made by the handler
\* of one render, so reorderSlides reads the slides of that render
call_addSlide_reorderSlides(slide, startIndex, endIndex) ==
    callStore("addSlide; reorderSlides", <<slide, startIndex, endIndex>>,
              reorderSlides(addSlide(presentation, slide), presentation,
                            startIndex, endIndex))

\* the sequence may grow by one more entry
mayGrow == Len(presentation.slides) < MaxSlides

\* reordering and export
ReorderEvents ==
    \/ \E slide \in NewSlides : call_addSlide(slide)
    \/ \E startIndex, endIndex \in ReorderIndices :
          /\ mayGrow
          /\ call_reorderSlides(startIndex, endIndex)
    \/ \E startIndex, endIndex \in ReorderIndices :
          /\ mayGrow
          /\ call_addSlide_reorderSlides(SlideBody, startIndex, endIndex)
    \/ ExportButton_handleExport("pptx")
    \/ Header_handleExport("pptx")
    \/ \E i \in Slots, outcome \in FetchOutcomes : exportSettles(i, outcome)
    \/ \E i \in Slots, outcome \in FetchOutcomes : debugExportSettles(i, outcome)

NextReorder ==
    IF timerScheduled THEN Timers ELSE ReorderEvents

SpecReorder == Init /\ [][NextReorder]_vars

(* ---- SlidePreview --------------------------------------------------- *)

\* an entry of the table `templates` of getTemplateColors
Colors(primary, secondary, accent, background, text_) ==
    [defined |-> TRUE, primary |-> primary, secondary |-> secondary, accent |-> accent,
     background |-> background, text |-> text_]

\* the own keys of the table `templates`
SlidePreview_templateKeys ==
    {"corporate", "creative", "academic", "marketing", "minimalist", "techStartup",
     "businessPitch", "futuristic", "elegant", "healthcare", "finance", "event",
     "elearning", "travel"}

\* templates[key] for an own key of the table
SlidePreview_templates(key) ==
    CASE key = "corporate" ->
           Colors("#002B5B", "#6F6F6F", "#4589FF", "#FFFFFF", "#002B5B")
      [] key = "creative" ->
           Colors("#5A189A", "#9C27B0", "#FFCC00", "#F5F5F5", "#5A189A")
      [] key = "academic" ->
           Colors("#1C3D6E", "#00897B", "#4DD0E1", "#FAF3E0", "#1C3D6E")
      [] key = "marketing" ->
           Colors("#E63946", "#FF9800", "#FFC107", "#FFFFFF", "#E63946")
      [] key = "minimalist" ->
           Colors("#444444", "#757575", "#BDBDBD", "#FFFFFF", "#444444")
      [] key = "techStartup" ->
           Colors("#00A8E8", "#1E1E1E", "#2ECC71", "#1E1E1E", "#00A8E8")
      [] key = "businessPitch" ->
           Colors("#001F3F", "#444444", "#102A43", "#FFFFFF", "#001F3F")
      [] key = "futuristic" ->
           Colors("#00FFFF", "#00E5FF", "#240046", "#000000", "#00FFFF")
      [] key = "elegant" ->
           Colors("#D4AF37", "#4A0D37", "#1B1B2F", "#000000", "#D4AF37")
      [] key = "healthcare" ->
           Colors("#007BFF", "#00897B", "#E3F2FD", "#FFFFFF", "#007BFF")
      [] key = "finance" ->
           Colors("#004B23", "#2A3D66", "#F4F4F4", "#F4F4F4", "#004B23")
      [] key = "event" ->
           Colors("#E63946", "#007BFF", "#4B0082", "#FFFFFF", "#E63946")
      [] key = "elearning" ->
           Colors("#004D40", "#333333", "#FFF8E1", "#FFFFFF", "#004D40")
      [] key = "travel" ->
           Colors("#1E90FF", "#8B4513", "#F4E1C6", "#87CEFA", "#1E90FF")

\* what templates[templateId] is when the table has no such own key:
\* undefined, or a member of Object.prototype, which has no colour
NoColors ==
    [defined |-> FALSE, primary |-> Undefined, secondary |-> Undefined,
     accent |-> Undefined, background |-> Undefined, text |-> Undefined]

\* getTemplateColors of SlidePreview: return templates[templateId]
SlidePreview_getTemplateColors(templateId) ==
    IF templateId \in SlidePreview_templateKeys THEN SlidePreview_templates(templateId)
    ELSE IF templateId \in ObjectPrototypeKeys THEN [NoColors EXCEPT !.defined = TRUE]
    ELSE NoColors

(* ---- the downloads and their object URLs ---------------------------- *)

\* the module-level function exportPresentation(contentData, templateStyle,
\* format) that the store's file exports: it calls apiService.post, which
\* the object apiService does not have, so the call throws a TypeError
\* before a request is sent; the catch block logs and throws it again
module_exportPresentation(format) ==
    /\ last' = [Step("exportPresentation (module function)", "context", "none", NoRequest,
                     "none", TRUE, "rejected", NullResponse)
                EXCEPT !.args = <<format>>]
    /\ UNCHANGED <<presentation, text, isExporting, exportFormat, inv, objectURLs>>

\* exports from the PPTX tab of the header and from the module-level function
DownloadEvents ==
    \/ Header_handleExport("pptx")
    \/ module_exportPresentation("pptx")
    \/ \E i \in Slots, outcome \in FetchOutcomes : exportSettles(i, outcome)
    \/ \E i \in Slots, outcome \in FetchOutcomes : debugExportSettles(i, outcome)

\* the callbacks run at any time; no further event is handled while
\* MaxObjectURLs object URLs are unreleased
NextDownload ==
    \/ Timers
    \/ /\ Cardinality(objectURLs) < MaxObjectURLs
       /\ DownloadEvents

\* the callback that revokes the object URL `id`
revokeTimeoutOf(id) == \E url \in objectURLs : url.id = id /\ revokeTimeout(url)

\* every scheduled callback eventually runs
FairTimers == \A id \in 1..MaxObjectURLs : WF_vars(revokeTimeoutOf(id))

FairDownload == Init /\ [][NextDownload]_vars /\ FairTimers

(* ---- C1 ---------------------------------------------------------------- *)

\* C1: while a generate or export invocation started from a UI control is
\* in flight, no further one can be started from any UI control: at most
\* one invocation is in flight at a time.  (Violated: the PPTX / DOCX / PDF
\* tabs of the Header are never disabled.)
C1_OneInFlight == Cardinality(InFlight) <= 1

(* ---- C2 ---------------------------------------------------------------- *)

\* C2: every invocation of generatePresentation or exportPresentation
\* finishes, given that every network call settles, and the step that
\* finishes it leaves isGenerating false; isGenerating never stays true.
C2_AlwaysFinishes ==
    /\ \A i \in Slots : (inv[i].pc # "idle") ~> (inv[i].pc = "idle")
    /\ presentation.isGenerating ~> ~presentation.isGenerating
    /\ [](last.done => ~presentation.isGenerating)

\* an export whose two requests both failed has finished and left the flag false
C2_Witness ==
    /\ last.op = "debugExportPresentation.settled"
    /\ last.settled = "rejected"
    /\ last.done
    /\ ~presentation.isGenerating
    /\ InFlight = {}

(* ---- C3 ---------------------------------------------------------------- *)

\* C3: one invocation sends at most one request to its endpoint; nothing is
\* retried automatically.  (Violated: after a failed export the catch block
\* posts debugExportPresentation's payload to /api/export.)
C3_NoAutomaticRetry == \A i \in Slots : inv[i].sent <= 1

(* ---- C4 ---------------------------------------------------------------- *)

\* C4: generatePresentation invoked with an empty prompt and no document
\* sends no request, starts no invocation and reports "Input Required".
C4_ValidatesInput ==
    [][ ( /\ last'.op = "generatePresentation"
          /\ presentation.promptText = ""
          /\ presentation.uploadedDocument = Null )
        => ( /\ last'.request.endpoint = "none"
             /\ last'.toast = "Input Required"
             /\ \A i \in Slots : inv'[i].pc = inv[i].pc ) ]_vars

C4_Witness ==
    /\ last.op = "generatePresentation"
    /\ presentation.promptText = ""
    /\ presentation.uploadedDocument = Null
    /\ last.toast = "Input Required"
    /\ last.request.endpoint = "none"

(* ---- C5 ---------------------------------------------------------------- *)

\* C5: exportPresentation invoked on an empty slide sequence sends no
\* request (the payload is the request's body), starts no download and
\* reports "No Content".
C5_FailsFast ==
    [][ ( /\ last'.op = "exportPresentation"
          /\ Len(presentation.slides) = 0 )
        => ( /\ last'.request.endpoint = "none"
             /\ last'.saved = "none"
             /\ last'.toast = "No Content"
             /\ \A i \in Slots : inv'[i].pc = inv[i].pc ) ]_vars

C5_Witness ==
    /\ last.op = "exportPresentation"
    /\ Len(presentation.slides) = 0
    /\ last.toast = "No Content"
    /\ last.request.endpoint = "none"
    /\ last.saved = "none"

(* ---- C6 ---------------------------------------------------------------- *)

\* C6: a validation failure of generatePresentation or exportPresentation
\* leaves every field of the store as it was before the invocation.
\* (Violated: generatePresentation sets generationProgress to 10 before it
\* validates; either action leaves isGenerating false though another
\* invocation is in flight.)
C6_NoPartialMutation ==
    [][ ( \/ /\ last'.op = "generatePresentation"
             /\ presentation.promptText = ""
             /\ presentation.uploadedDocument = Null
          \/ /\ last'.op = "exportPresentation"
             /\ Len(presentation.slides) = 0 )
        => presentation' = presentation ]_vars

(* ---- C7 ---------------------------------------------------------------- *)

\* C7: when the call to /api/generate rejects, or resolves with null or
\* with an object that has no `slides`, the step that resumes
\* generatePresentation leaves the slides and the title as they were and
\* reports "Generation Error".
C7_FailureKeepsSlidesAndTitle ==
    [][ ( /\ last'.op = "generatePresentation.settled"
          /\ \/ last'.settled = "rejected"
             \/ last'.response.isNull
             \/ last'.response.slidesKind = "absent" )
        => ( /\ presentation'.slides = presentation.slides
             /\ presentation'.title = presentation.title
             /\ last'.toast = "Generation Error" ) ]_vars

\* a response with a title and no slides was received; the title was not taken
C7_Witness ==
    /\ last.op = "generatePresentation.settled"
    /\ last.settled = "resolved"
    /\ ~last.response.isNull
    /\ last.response.slidesKind = "absent"
    /\ last.response.title = "Intro"
    /\ presentation.title # "Intro"
    /\ last.toast = "Generation Error"

(* ---- C8 ---------------------------------------------------------------- *)

\* C8: when the response has no `slides`, the store after generatePresentation
\* has finished equals the store before the call, generationProgress
\* included, provided no other handler changed the store in between.
\* (Violated: generationProgress is left at 100.)
C8_StateAsBeforeTheCall ==
    [][ \A i \in Slots :
          ( /\ inv[i].pc = "generate"
            /\ inv[i].preValid
            /\ inv'[i].pc = "idle"
            /\ last'.op = "generatePresentation.settled"
            /\ last'.settled = "resolved"
            /\ ~last'.response.isNull
            /\ last'.response.slidesKind = "absent" )
          => presentation' = inv[i].pre ]_vars

(* ---- C9 ---------------------------------------------------------------- *)

\* C9: after a response whose `slides` is an array of n elements has been
\* applied, the store holds exactly n slides, the k-th made from the k-th
\* element: id the numeral of k (zero-based index + 1), type and title
\* copied, content the element's content or else (absent or empty) its
\* subtitle, imageUrl / leftContent / rightContent from image_url /
\* left_content / right_content.
C9_ResponseMapping ==
    ( /\ last.op = "generatePresentation.settled"
      /\ last.settled = "resolved"
      /\ ~last.response.isNull
      /\ last.response.slidesKind = "array" )
    => /\ Len(presentation.slides) = Len(last.response.items)
       /\ \A k \in 1..Len(last.response.items) :
            LET el == last.response.items[k]
                sl == presentation.slides[k]
                numeral == <<"1", "2", "3">>
            IN  /\ sl.id = numeral[k]
                /\ sl.type = el.type
                /\ sl.title = el.title
                /\ sl.content = IF el.content \in {Undefined, ""}
                                THEN el.subtitle ELSE el.content
                /\ sl.imageUrl = el.image_url
                /\ sl.leftContent = el.left_content
                /\ sl.rightContent = el.right_content

\* the response of three elements has replaced the one default slide
C9_Witness ==
    /\ last.op = "generatePresentation.settled"
    /\ last.settled = "resolved"
    /\ last.response.slidesKind = "array"
    /\ Len(last.response.items) = 3
    /\ Len(presentation.slides) = 3
    /\ presentation.slides[1].content = "Sub"
    /\ presentation.slides[2].content = "Text"
    /\ presentation.slides[3].id = "3"

(* ---- C10 --------------------------------------------------------------- *)

\* C10 as stated: when a response with a `slides` array is applied, the
\* title becomes response.title if the response has a title, and stays
\* otherwise.  (Violated by a response whose title is the empty string.)
C10_TitleIfPresent ==
    [][ ( /\ last'.op = "generatePresentation.settled"
          /\ last'.settled = "resolved"
          /\ ~last'.response.isNull
          /\ last'.response.slidesKind = "array" )
        => presentation'.title = IF last'.response.title # Undefined
                                 THEN last'.response.title
                                 ELSE presentation.title ]_vars

\* C10, amended: when a response with a `slides` array is applied, the
\* title becomes response.title if the response has a non-empty title, and
\* stays as it was if the title is absent or the empty string.
C10_TitleIfNonEmpty ==
    [][ ( /\ last'.op = "generatePresentation.settled"
          /\ last'.settled = "resolved"
          /\ ~last'.response.isNull
          /\ last'.response.slidesKind = "array" )
        => presentation'.title = IF last'.response.title \notin {Undefined, Null, ""}
                                 THEN last'.response.title
                                 ELSE presentation.title ]_vars

\* a response with an empty title was applied and the title stayed
C10_Witness ==
    /\ last.op = "generatePresentation.settled"
    /\ last.settled = "resolved"
    /\ last.response.slidesKind = "array"
    /\ last.response.title = ""
    /\ presentation.title = "Untitled Presentation"
    /\ Len(presentation.slides) = 0

(* ---- C11 --------------------------------------------------------------- *)

\* C11: reorderSlides(startIndex, endIndex) with both indices inside the
\* sequence takes one slide out and puts it back: the slide that was at
\* startIndex is at endIndex, the other slides keep their order, and the
\* sequence has the same slides as before.
C11_ExtractAndReinsert ==
    [][ ( /\ last'.op = "reorderSlides"
          /\ last'.args[1] \in 0..(Len(presentation.slides) - 1)
          /\ last'.args[2] \in 0..(Len(presentation.slides) - 1) )
        => LET old == presentation.slides
               new == presentation'.slides
               startIndex == last'.args[1]
               endIndex == last'.args[2]
               \* the old and the new sequence without the moved slide
               oldRest == [i \in 1..(Len(old) - 1) |->
                             IF i <= startIndex THEN old[i] ELSE old[i + 1]]
               newRest == [i \in 1..(Len(old) - 1) |->
                             IF i <= endIndex THEN new[i] ELSE new[i + 1]]
           IN  /\ Len(new) = Len(old)
               /\ new[endIndex + 1] = old[startIndex + 1]
               /\ newRest = oldRest ]_vars

\* [A, B, C] became [B, C, A] by reorderSlides(0, 2)
C11_Witness ==
    /\ last.op = "reorderSlides"
    /\ last.args = <<0, 2>>
    /\ presentation.slides = <<SlideBody, SlidePoints, defaultSlides[1]>>

(* ---- C12 --------------------------------------------------------------- *)

\* C12: in every reachable state of the store the identifiers of the slides
\* are pairwise distinct.  (Violated: addSlide appends a slide whatever its
\* identifier, and updateSlide and setSlides take any identifier too.  The
\* other half of the claim, that reorderSlides keeps every slide and so its
\* identifier, is part of C11.)
C12_DistinctIdentifiers ==
    \A i, j \in 1..Len(presentation.slides) :
        i # j => presentation.slides[i].id # presentation.slides[j].id

(* ---- C13 --------------------------------------------------------------- *)

\* C13: for the selected template T of the catalog, the bundle of
\* getTemplateStyles(T) has the primaryColor, secondaryColor and accentColor
\* of the catalog entry of T, also where the styling table differs.
C13_CatalogColoursWin ==
    \A i \in 1..Len(availableTemplates) :
        presentation.selectedTemplate = availableTemplates[i].id
        => LET bundle == getTemplateStyles(presentation.selectedTemplate) IN
           /\ bundle.primaryColor = availableTemplates[i].primaryColor
           /\ bundle.secondaryColor = availableTemplates[i].secondaryColor
           /\ bundle.accentColor = availableTemplates[i].accentColor

\* an export under the futuristic template, whose accent colour is #00E5FF
\* in the styling table and #240046 in the catalog, was sent with #240046
C13_Witness ==
    /\ presentation.selectedTemplate = "futuristic"
    /\ last.op = "exportPresentation"
    /\ last.request.endpoint = "/api/export"
    /\ templateStyling("futuristic", findTemplate("futuristic")).accentColor = "#00E5FF"
    /\ getTemplateStyles("futuristic").accentColor = "#240046"
    /\ last.request.body.accentColor = "#240046"

(* ---- C14 --------------------------------------------------------------- *)

\* C14: for a selected template identifier that is not in the catalog,
\* getTemplateStyles returns the bundle of 'corporate', field for field.
\* (Violated by an identifier that names a member every object inherits,
\* such as 'constructor': templateStyling[templateId] is then truthy and
\* the corporate entry is not taken.)
C14_UnknownIsCorporate ==
    presentation.selectedTemplate \notin {availableTemplates[i].id : i \in 1..Len(availableTemplates)}
    => getTemplateStyles(presentation.selectedTemplate) = getTemplateStyles("corporate")

(* ---- C15 --------------------------------------------------------------- *)

\* C15: every body sent to /api/export holds each of the ten styling fields
\* under its camelCase and under its snake_case name, with equal values.
C15_BothNamingConventions ==
    ( last.request.endpoint = "/api/export" )
    => LET body == last.request.body
           keys == DOMAIN body
       IN  /\ {"backgroundColor", "background_color", "textColor", "text_color",
               "primaryColor", "primary_color", "secondaryColor", "secondary_color",
               "accentColor", "accent_color", "fontFamily", "font_family",
               "titleFontSize", "title_font_size", "contentFontSize", "content_font_size",
               "titleFontWeight", "title_font_weight",
               "contentFontWeight", "content_font_weight"} \subseteq keys
           /\ body.backgroundColor = body.background_color
           /\ body.textColor = body.text_color
           /\ body.primaryColor = body.primary_color
           /\ body.secondaryColor = body.secondary_color
           /\ body.accentColor = body.accent_color
           /\ body.fontFamily = body.font_family
           /\ body.titleFontSize = body.title_font_size
           /\ body.contentFontSize = body.content_font_size
           /\ body.titleFontWeight = body.title_font_weight
           /\ body.contentFontWeight = body.content_font_weight

\* the deck of two slides was exported as PDF under the creative template
C15_Witness ==
    /\ last.op = "exportPresentation"
    /\ last.request.via = "exportPresentation"
    /\ last.request.format = "pdf"
    /\ presentation.selectedTemplate = "creative"
    /\ Len(presentation.slides) = 2
    /\ last.request.body.backgroundColor = "#F5F5F5"
    /\ last.request.body.background_color = "#F5F5F5"
    /\ last.request.body.title_font_size = "48pt"

(* ---- C16 --------------------------------------------------------------- *)

\* C16: the body that an export invocation sends is determined by the
\* title, the slides and the selected template of the store and by the
\* format: it is the body built from a store that agrees on these three
\* fields, whatever its other fields hold, so two invocations that agree
\* on them and on the format send equal bodies.
C16_PayloadDeterminedByState ==
    [][ ( /\ last'.op = "exportPresentation"
          /\ last'.request.endpoint = "/api/export" )
        => \E format \in Formats :
             /\ last'.request.format = format
             /\ last'.request.body =
                  exportPayload([initialState EXCEPT
                                    !.title = presentation.title,
                                    !.slides = presentation.slides,
                                    !.selectedTemplate = presentation.selectedTemplate],
                                format) ]_vars

\* an export sent while a generation is in flight, a prompt is typed and
\* the progress stands at 10
C16_Witness ==
    /\ last.op = "exportPresentation"
    /\ last.request.endpoint = "/api/export"
    /\ presentation.promptText # ""
    /\ presentation.generationProgress = 10
    /\ \E i \in Slots : inv[i].pc = "generate"
    /\ last.request.body.title = "Untitled Presentation"

(* ---- C17 --------------------------------------------------------------- *)

\* C17: for a slide of kind quote that has a quote and an author and no
\* content, bullets, image or column, the entry of the body sent by
\* exportPresentation has exactly the keys type, title, quote and author,
\* with title "" when the slide has no title and the slide's quote and
\* author; it has no bullets, content or image_url key.
C17_QuoteSlideEntry ==
    ( /\ last.op = "exportPresentation"
      /\ last.request.endpoint = "/api/export" )
    => \A k \in 1..Len(presentation.slides) :
         LET slide == presentation.slides[k]
             entry == last.request.body.slides[k]
         IN  ( /\ slide.type = "quote"
               /\ slide.quote \notin {Undefined, ""}
               /\ slide.author \notin {Undefined, ""}
               /\ slide.content = Undefined
               /\ ~slide.bullets.isArray
               /\ slide.imageUrl = Undefined
               /\ slide.leftContent = Undefined
               /\ slide.rightContent = Undefined )
             => /\ DOMAIN entry = {"type", "title", "quote", "author"}
                /\ entry.type = "quote"
                /\ entry.title = IF slide.title \in {Undefined, ""} THEN "" ELSE slide.title
                /\ entry.quote = slide.quote
                /\ entry.author = slide.author

\* the slide { type: 'quote', quote: 'Q', author: 'X' } was exported under
\* the creative template
C17_Witness ==
    /\ last.op = "exportPresentation"
    /\ last.request.endpoint = "/api/export"
    /\ presentation.selectedTemplate = "creative"
    /\ presentation.slides[1] = SlideQuote
    /\ last.request.body.slides[1].quote = "Q"
    /\ last.request.body.slides[1].author = "X"
    /\ "content" \notin DOMAIN last.request.body.slides[1]

(* ---- C18 --------------------------------------------------------------- *)

\* C18: uploadedDocument changes only in a step of the upload controls (a
\* validated file picked or dropped, or remove-file); no step of
\* generatePresentation or exportPresentation, succeeding or failing,
\* changes it.
C18_DocumentKept ==
    [][ /\ ( presentation'.uploadedDocument # presentation.uploadedDocument
             => last'.op \in {"handleChange", "handleDrop", "removeFile"} )
        /\ ( last'.op \in {"generatePresentation", "generatePresentation.settled",
                           "exportPresentation", "exportPresentation.settled",
                           "debugExportPresentation.settled"}
             => presentation'.uploadedDocument = presentation.uploadedDocument ) ]_vars

\* a presentation was generated from an uploaded document, which is still there
C18_Witness ==
    /\ last.op = "generatePresentation.settled"
    /\ last.toast = "Presentation Generated"
    /\ presentation.uploadedDocument = "report.pdf"
    /\ presentation.promptText = ""

(* ---- C19 --------------------------------------------------------------- *)

\* C19: when /api/export answers with a status that is not a success, the
\* step that resumes exportPresentation saves no file from that response
\* and shows "Export Failed" with the error's message, which carries the
\* status and the text of the response body.
C19_StatusIsFailure ==
    ( /\ last.op = "exportPresentation.settled"
      /\ last.settled = "status" )
    => /\ last.saved = "none"
       /\ last.toast = "Export Failed"
       /\ last.description = "Export failed with status 500: renderer crashed"

C19_Witness ==
    /\ last.op = "exportPresentation.settled"
    /\ last.settled = "status"
    /\ last.toast = "Export Failed"
    /\ last.saved = "none"
    /\ last.description = "Export failed with status 500: renderer crashed"
    /\ presentation.isGenerating

(* ---- C20 --------------------------------------------------------------- *)

\* C20: a successful export is saved under the file name given in the
\* response's content-disposition header when the response has one, and
\* under presentation.<format> when it has none.
C20_HintedNameUsed ==
    last.op = "exportPresentation.settled"
    => /\ ( last.settled = "okNamed" => last.saved = "deck.pptx" )
       /\ ( last.settled = "ok"
            => last.saved \in {"presentation.pptx", "presentation.docx", "presentation.pdf"} )

(* ---- C21 --------------------------------------------------------------- *)

\* C21: every object URL created to back a download has a callback
\* scheduled that revokes it (and removes the link), and is eventually
\* revoked: no object URL stays unreleased forever.
C21_EventuallyReleased ==
    /\ [](\A url \in objectURLs : url.revoke)
    /\ \A id \in 1..MaxObjectURLs :
          (\E url \in objectURLs : url.id = id) ~> ~(\E url \in objectURLs : url.id = id)

C21_Witness ==
    /\ last.op = "setTimeout"
    /\ Cardinality(objectURLs) = 1
    /\ \E url \in objectURLs : url.filename = "debug_presentation.pptx" /\ url.revoke

(* ---- C22 --------------------------------------------------------------- *)

\* C22: whenever a document is uploaded, the prompt is empty and no
\* generate or export invocation is in flight, the Generate button is
\* there to be clicked (handleGenerate is enabled).
C22_GenerateFromDocumentAlone ==
    ( /\ Truthy(presentation.uploadedDocument)
      /\ text = ""
      /\ presentation.promptText = ""
      /\ InFlight = {}
      /\ ~presentation.isGenerating )
    => generateEnabled

(* ---- C23 --------------------------------------------------------------- *)

\* C23: the step that handles a failed export request ends the export
\* action without a further request, and every file that an export action
\* saves is the answer to the request built from the store (never the
\* answer to another request).
C23_FailureGoesBackToIdle ==
    /\ ( /\ last.op = "exportPresentation.settled"
         /\ ~responseOk(last.settled) )
       => ( last.done /\ last.request.endpoint = "none" )
    /\ ( last.saved # "none" => last.op = "exportPresentation.settled" )

(* ---- C24 --------------------------------------------------------------- *)

\* C24: for every slide of the store, its entry in the export payload has,
\* besides type and title, only the keys of its kind (content for title
\* and content slides, bullets for bullets, image_url for image, quote and
\* author for quote, left_content and right_content for two-column), and no
\* key holds an empty string or an empty list.
C24_OnlyFieldsOfTheKind ==
    LET meaningful(type) ==
            CASE type \in {"title", "content"} -> {"content"}
              [] type = "bullets" -> {"bullets"}
              [] type = "image" -> {"image_url"}
              [] type = "quote" -> {"quote", "author"}
              [] type = "two-column" -> {"left_content", "right_content"}
        slides == exportPayload(presentation, "pptx").slides
    IN  \A i \in 1..Len(slides) :
            /\ DOMAIN slides[i] \subseteq {"type", "title"} \cup meaningful(slides[i].type)
            /\ \A key \in DOMAIN slides[i] \ {"type", "title"} :
                   slides[i][key] \notin {"", <<>>}

(* ---- C25 --------------------------------------------------------------- *)

\* C25: in every body that exportPresentation sends to /api/export, for
\* every selected template identifier, each of the ten styling fields is
\* defined under both of its names, and holds the literal fallback where
\* getTemplateStyles leaves the field undefined.
C25_NoUndefinedStylingField ==
    ( last.op = "exportPresentation" /\ last.request.endpoint = "/api/export" )
    => LET body == last.request.body
           bundle == getTemplateStyles(presentation.selectedTemplate)
       IN  /\ \A key \in {"backgroundColor", "background_color", "textColor", "text_color",
                          "primaryColor", "primary_color", "secondaryColor",
                          "secondary_color", "accentColor", "accent_color",
                          "fontFamily", "font_family", "titleFontSize", "title_font_size",
                          "contentFontSize", "content_font_size", "titleFontWeight",
                          "title_font_weight", "contentFontWeight", "content_font_weight"} :
                  key \in DOMAIN body /\ body[key] \notin {Undefined, Null, ""}
           /\ ~Truthy(bundle.backgroundColor) => body.backgroundColor = "#FFFFFF"
           /\ ~Truthy(bundle.textColor) => body.textColor = "#000000"
           /\ ~Truthy(bundle.fontFamily) => body.fontFamily = "Arial, sans-serif"
           /\ ~Truthy(bundle.titleFontSize) => body.titleFontSize = "44pt"
           /\ ~Truthy(bundle.contentFontSize) => body.contentFontSize = "28pt"
           /\ ~Truthy(bundle.titleFontWeight) => body.titleFontWeight = "bold"
           /\ ~Truthy(bundle.contentFontWeight) => body.contentFontWeight = "regular"

\* an export under an identifier whose bundle has no font and no background
C25_Witness ==
    /\ last.op = "exportPresentation"
    /\ last.request.endpoint = "/api/export"
    /\ presentation.selectedTemplate = "constructor"
    /\ getTemplateStyles("constructor").fontFamily = Undefined
    /\ last.request.body.font_family = "Arial, sans-serif"
    /\ last.request.body.background_color = "#FFFFFF"
    /\ last.request.body.title_font_size = "44pt"

(* ---- C26 --------------------------------------------------------------- *)

\* C26: for the selected template of every state, the catalog lookup of
\* generate and export and the colour lookup of the slide preview yield a
\* defined entry, the corporate one when the identifier is not in the
\* catalog.
C26_LookupAlwaysDefined ==
    LET id == presentation.selectedTemplate IN
    /\ findTemplate(id).id \in TemplateIds
    /\ id \notin TemplateIds => findTemplate(id).id = "corporate"
    /\ SlidePreview_getTemplateColors(id).defined
    /\ id \notin TemplateIds
       => SlidePreview_getTemplateColors(id) = SlidePreview_getTemplateColors("corporate")

(* ---- C27 --------------------------------------------------------------- *)

\* C27: the Export button is disabled exactly when there is no slide, or
\* the presentation is being generated, or an export started from the
\* button is in flight.
C27_DisabledExactlyWhen ==
    isDisabled <=> ( \/ Len(presentation.slides) = 0
                     \/ presentation.isGenerating
                     \/ isExporting )

(* ---- C28 --------------------------------------------------------------- *)

\* C28: no invocation of the store's exportPresentation ends with its
\* promise rejected: whatever the slides are, a failure is reported by a
\* toast and the promise is fulfilled.
C28_NeverRejects ==
    last.op = "exportPresentation" => ~last.rejected

(* ---- C29 --------------------------------------------------------------- *)

\* C29: while a request that generatePresentation or exportPresentation
\* sent is outstanding, isGenerating is true.
C29_FlagWhileOutstanding ==
    InFlight # {} => presentation.isGenerating

(* ---- C30 --------------------------------------------------------------- *)

\* C30: for any startIndex and endIndex, reorderSlides leaves a permutation
\* of the slides that were there, with no undefined entry; and addSlide
\* followed by reorderSlides within one handler gives what the two give one
\* after the other.
C30_ReorderKeepsTheSlides ==
    [][ LET before == presentation.slides
            after == presentation'.slides
            count(seq, x) == Cardinality({i \in 1..Len(seq) : seq[i] = x})
            args == last'.args
        IN  /\ last'.op = "reorderSlides"
               => /\ Len(after) = Len(before)
                  /\ \A i \in 1..Len(before) : count(after, before[i]) = count(before, before[i])
                  /\ \A i \in 1..Len(after) : after[i] # UndefinedSlide
            /\ last'.op = "addSlide; reorderSlides"
               => LET added == addSlide(presentation, args[1])
                  IN  after = reorderSlides(added, added, args[2], args[3]).slides
      ]_vars

====
